---- MODULE Spec2Model ----
(***************************************************************************)
(* Model of the boilerplate Starlette backend                              *)
(*   src/backend/old/boilerplate_app/web/__init__.py  (lifespan, create_app)*)
(*   src/backend/old/boilerplate_app/web/routes.py    (handlers, api_routes)*)
(*                                                                         *)
(* A request is a task: it is dispatched by the router up to its first     *)
(* suspension point (the awaited body in hello_post, the hand-off to the   *)
(* worker thread pool in the tabular handlers and the file routes) and is  *)
(* resumed later by a separate step, so the steps of several requests      *)
(* interleave.  Paths are sequences of segments ("/api/hello" is           *)
(* <<"api", "hello">>, "/" is <<>>); a request body is the sequence of its *)
(* JSON tokens; float columns are kept in hundredths (all literals of the  *)
(* price column and their products are exact in binary floating point).    *)
(***************************************************************************)
EXTENDS Integers, Sequences, FiniteSets, Bags, TLC

VARIABLES phase,   \* "created" before the lifespan startup ran, "serving" after
          db,      \* app.state.db
          reqs     \* the bag of requests received so far, each with its position and response

vars == <<phase, db, reqs>>

\* Largest number of requests one behaviour receives.
MaxRequests == 3

-----------------------------------------------------------------------------
(* app.state.db *)

\* The attribute does not exist before the lifespan hook has run.
Unset == [kind |-> "unset", users |-> <<>>]

\* Python's None.
None == [kind |-> "None", users |-> <<>>]

\* A database connection whose table `users` holds one row (no code creates one).
Conn == [kind |-> "conn", users |-> <<[name |-> "Zed", age |-> 41, city |-> "Oslo"]>>]

\* Variant of lifespan_db: a lifespan hook that opens a connection.
lifespan_db_conn == Conn

\* The value the lifespan hook stores in app.state.db before the first request.
lifespan_db == None

-----------------------------------------------------------------------------
(* Request bodies: JSON tokens and json.loads *)

LB == [t |-> "{", v |-> ""]
RB == [t |-> "}", v |-> ""]
LK == [t |-> "[", v |-> ""]
RK == [t |-> "]", v |-> ""]
COLON == [t |-> ":", v |-> ""]
COMMA == [t |-> ",", v |-> ""]
NULL == [t |-> "null", v |-> ""]
Str(s) == [t |-> "str", v |-> s]
Num(s) == [t |-> "num", v |-> s]

\* A scalar JSON token is a value on its own.
IsScalar(tok) == tok.t \in {"str", "num", "null"}

\* The result of a failed parse (json.JSONDecodeError).
DecodeError == [ok |-> FALSE, kind |-> "error", fields |-> <<>>, scalar |-> NULL]

\* A parsed dict: its members in order of appearance (a later duplicate key wins
\* in Members' lookup, as in Python's dict construction).
Dict(members) == [ok |-> TRUE, kind |-> "dict", fields |-> members, scalar |-> NULL]

\* A parsed list or scalar: valid JSON that is not a dict.
NonDict(kind, tok) == [ok |-> TRUE, kind |-> kind, fields |-> <<>>, scalar |-> tok]

\* members := str ":" scalar ("," str ":" scalar)* ; toks is what stands between the braces.
RECURSIVE ParseMembers(_, _)
ParseMembers(toks, acc) ==
    IF Len(toks) < 3 THEN DecodeError
    ELSE IF toks[1].t # "str" \/ toks[2] # COLON \/ ~IsScalar(toks[3]) THEN DecodeError
    ELSE LET acc2 == Append(acc, <<toks[1].v, toks[3]>>)
         IN  IF Len(toks) = 3 THEN Dict(acc2)
             ELSE IF toks[4] # COMMA THEN DecodeError
             ELSE ParseMembers(SubSeq(toks, 5, Len(toks)), acc2)

\* Variant of json_loads: a parse that yields an empty dict instead of raising.
json_loads_lenient(toks) ==
    IF Len(toks) >= 2 /\ toks[1] = LB /\ toks[Len(toks)] = RB /\ Len(toks) > 2
    THEN LET p == ParseMembers(SubSeq(toks, 2, Len(toks) - 1), <<>>)
         IN  IF p.ok THEN p ELSE Dict(<<>>)
    ELSE Dict(<<>>)

\* request.json(): json.loads on the token sequence of the body (objects hold
\* scalars only: the bodies of the model nest no deeper).
json_loads(toks) ==
    IF Len(toks) = 0 THEN DecodeError
    ELSE IF Len(toks) = 1 THEN
        IF IsScalar(toks[1]) THEN NonDict("scalar", toks[1]) ELSE DecodeError
    ELSE IF toks[1] = LK THEN
        IF Len(toks) = 2 /\ toks[2] = RK THEN NonDict("list", NULL) ELSE DecodeError
    ELSE IF toks[1] = LB /\ toks[Len(toks)] = RB THEN
        IF Len(toks) = 2 THEN Dict(<<>>)
        ELSE ParseMembers(SubSeq(toks, 2, Len(toks) - 1), <<>>)
    ELSE DecodeError

\* dict.get(key, default): the value of the last member with that key.
RECURSIVE DictGet(_, _, _)
DictGet(members, key, default) ==
    IF Len(members) = 0 THEN default
    ELSE IF members[Len(members)][1] = key THEN members[Len(members)][2]
    ELSE DictGet(SubSeq(members, 1, Len(members) - 1), key, default)

\* str(value) as an f-string interpolates it: a str is itself, null is "None",
\* a number is its literal.
Format(tok) == IF tok.t = "null" THEN "None" ELSE tok.v

-----------------------------------------------------------------------------
(* Responses *)

Response(status, media, shape, items, text) ==
    [status |-> status, media |-> media, shape |-> shape, items |-> items, text |-> text]

\* The response of a request that has not been answered yet.
NoResponse == Response(0, "", "none", <<>>, "")

\* JSON content: a dict, or a list of dicts.
Object(rec) == [shape |-> "object", items |-> <<rec>>]
Array(rows) == [shape |-> "array", items |-> rows]

JSONResponse(content) == Response(200, "application/json", content.shape, content.items, "")

\* What the framework answers for an exception no handler catches.
ServerError == Response(500, "text/plain", "none", <<>>, "Internal Server Error")
\* What the framework answers when no route matches, or a static file is missing.
NotFound == Response(404, "text/plain", "none", <<>>, "Not Found")
\* What the framework answers when only the method of a route does not match.
MethodNotAllowed == Response(405, "text/plain", "none", <<>>, "Method Not Allowed")

-----------------------------------------------------------------------------
(* Table Builder: a DataFrame is a record of equally long columns *)

Height(df) == Len(df[CHOOSE c \in DOMAIN df : TRUE])

\* DataFrame.to_dicts(): one dict per row, in row order.
to_dicts(df) == [i \in 1..Height(df) |-> [c \in DOMAIN df |-> df[c][i]]]

\* A float literal w.f (two decimals), in hundredths.
F(w, f) == w * 100 + f

\* Variant of users_df: the last row is missing.
users_df_short ==
    [name |-> <<"Alice", "Bob">>, age |-> <<25, 30>>, city |-> <<"NYC", "LA">>]

\* The literal table of duckdb_example.
users_df ==
    [name |-> <<"Alice", "Bob", "Charlie">>,
     age  |-> <<25, 30, 35>>,
     city |-> <<"NYC", "LA", "Chicago">>]

\* The literal table of polars_example.
products_df ==
    [product  |-> <<"A", "B", "C", "D", "E">>,
     price    |-> <<F(10, 50), F(25, 0), F(15, 75), F(30, 0), F(20, 25)>>,
     quantity |-> <<100, 50, 75, 25, 60>>]

\* df.select([col('product'), (col('price') * col('quantity')).alias('total')])
summary(df) ==
    [product |-> df.product,
     total   |-> [i \in 1..Height(df) |-> df.price[i] * df.quantity[i]]]

-----------------------------------------------------------------------------
(* Route handlers.  A request is a record with the fields method, path,    *)
(* query and body.                                                         *)

\* Variant of hello: the greeting repeats the query string.
hello_echoes_query(request) ==
    JSONResponse(Object([message |-> "Hello from Starlette API!" \o request.query]))

hello(request) == JSONResponse(Object([message |-> "Hello from Starlette API!"]))

\* hello_post once the awaited body has arrived.
hello_post(request) ==
    LET data == json_loads(request.body)
    IN  IF ~data.ok THEN ServerError                \* request.json() raises
        ELSE IF data.kind # "dict" THEN ServerError \* a list or scalar has no .get
        ELSE JSONResponse(Object(
                 [message |-> "Hello, " \o Format(DictGet(data.fields, "name", Str("World"))) \o "!"]))

\* TemplateResponse(name, ...): the rendered template, named by its file.
TemplateResponse(name) == Response(200, "text/html", "none", <<>>, name)
hello_htmx(request) == TemplateResponse("hello_htmx.html")
main_content(request) == TemplateResponse("main_content.html")

\* Variant of query: the rows are filtered by the query string.
query_filters_by_query(request, d) ==
    [branch |-> "table", ok |-> TRUE,
     rows |-> IF request.query = "" THEN to_dicts(users_df) ELSE <<>>]

\* duckdb_example's inner function, run by a worker thread: the branch it takes
\* and its result.  d is app.state.db as the worker reads it; reading the
\* attribute before the lifespan hook has set it raises.
query(request, d) ==
    IF d.kind = "unset" THEN [branch |-> "n/a", ok |-> FALSE, rows |-> <<>>]
    ELSE IF d.kind = "None" THEN [branch |-> "table", ok |-> TRUE, rows |-> to_dicts(users_df)]
    ELSE [branch |-> "sql", ok |-> TRUE, rows |-> d.users]

duckdb_example(request, d) ==
    LET r == query(request, d)
    IN  IF r.ok THEN JSONResponse(Array(r.rows)) ELSE ServerError

\* Variant of process: total is price + quantity.
process_adds ==
    to_dicts([product |-> products_df.product,
              total   |-> [i \in 1..Height(products_df) |->
                              products_df.price[i] + products_df.quantity[i]]])

\* polars_example's inner function, run by a worker thread.
process == to_dicts(summary(products_df))

polars_example(request) == JSONResponse(Array(process))

\* The two lambdas of create_app: open(static_dir / name, 'rb').read() as the body.
\* file is what the worker finds at that path: "absent", "empty" or "data".
FileBytes(name, file) == IF file = "empty" THEN "" ELSE name

\* Variant of file_route: a missing file is answered with an empty body.
file_route_swallows_missing(name, media, file) ==
    IF file = "absent" THEN Response(200, media, "none", <<>>, "")
    ELSE Response(200, media, "none", <<>>, FileBytes(name, file))

file_route(name, media, file) ==
    IF file = "absent" THEN ServerError     \* open() raises FileNotFoundError
    ELSE Response(200, media, "none", <<>>, FileBytes(name, file))

\* StaticFiles.get_response for a path under /assets, once the worker has looked
\* the file up.
static_files(name, file) ==
    IF file = "absent" THEN NotFound
    ELSE Response(200, "text/javascript", "none", <<>>, FileBytes(name, file))

-----------------------------------------------------------------------------
(* Routing *)

\* Route(path, endpoint, methods=[...]): a route for GET also answers HEAD.
Route(path, endpoint, methods) ==
    [kind |-> "Route", path |-> path, endpoint |-> endpoint,
     methods |-> IF "GET" \in methods THEN methods \cup {"HEAD"} ELSE methods]

\* Mount(path, ...): everything below the path goes to the mounted application.
Mount(path, app) == [kind |-> "Mount", path |-> path, endpoint |-> app, methods |-> {}]

api_routes ==
    << Route(<<"hello">>, "hello", {"GET"}),
       Route(<<"hello">>, "hello_post", {"POST"}),
       Route(<<"hello-htmx">>, "hello_htmx", {"GET"}),
       Route(<<"main-content">>, "main_content", {"GET"}),
       Route(<<"duckdb-example">>, "duckdb_example", {"GET"}),
       Route(<<"polars-example">>, "polars_example", {"GET"}) >>

\* The routes of create_app; a function given without methods is a GET route.
routes ==
    << Mount(<<"api">>, "api_routes"),
       Mount(<<"assets">>, "StaticFiles"),
       Route(<<"vite.svg">>, "vite_svg", {"GET"}),
       Route(<<>>, "index", {"GET"}) >>

\* Route.matches / Mount.matches: "full", "partial" (the path matches, the method
\* does not) or "none".
Matches(route, method, path) ==
    IF route.kind = "Mount"
    THEN IF Len(path) > Len(route.path) /\ SubSeq(path, 1, Len(route.path)) = route.path
         THEN "full" ELSE "none"
    ELSE IF path # route.path THEN "none"
         ELSE IF method \in route.methods THEN "full" ELSE "partial"

Min(S) == CHOOSE i \in S : \A j \in S : i <= j

\* Variant of Router: the first route whose path matches decides.
Router_first_path_match(table, method, path) ==
    LET hit == {i \in 1..Len(table) : Matches(table[i], method, path) # "none"}
    IN  IF hit = {} THEN [match |-> "none", endpoint |-> "not_found"]
        ELSE LET r == table[Min(hit)]
             IN  IF Matches(r, method, path) = "full"
                 THEN [match |-> "full", endpoint |-> r.endpoint]
                 ELSE [match |-> "partial", endpoint |-> "method_not_allowed"]

\* Router: the first full match wins; failing that the first partial match, which
\* answers 405; failing that, not found.
Router(table, method, path) ==
    LET full == {i \in 1..Len(table) : Matches(table[i], method, path) = "full"}
        part == {i \in 1..Len(table) : Matches(table[i], method, path) = "partial"}
    IN  IF full # {} THEN [match |-> "full", endpoint |-> table[Min(full)].endpoint]
        ELSE IF part # {} THEN [match |-> "partial", endpoint |-> "method_not_allowed"]
        ELSE [match |-> "none", endpoint |-> "not_found"]

\* The endpoint that serves a request: the application's router, then the router
\* of the /api mount or the StaticFiles application of the /assets mount.
Dispatch(method, path) ==
    LET top == Router(routes, method, path).endpoint
    IN  IF top = "api_routes" THEN Router(api_routes, method, Tail(path)).endpoint
        ELSE IF top = "StaticFiles"
             THEN IF method \in {"GET", "HEAD"} THEN "StaticFiles" ELSE "method_not_allowed"
        ELSE top

-----------------------------------------------------------------------------
(* The requests the model sends *)

Methods == {"GET", "POST"}

HelloPath == <<"api", "hello">>
DuckdbPath == <<"api", "duckdb-example">>
PolarsPath == <<"api", "polars-example">>
AssetPath == <<"assets", "app.js">>

Paths ==
    { HelloPath, DuckdbPath, PolarsPath, <<"api", "hello-htmx">>, <<"api", "main-content">>,
      <<"api", "nope">>, AssetPath, <<"vite.svg">>, <<>> }

EmptyBody == <<>>
NameBody(tok) == <<LB, Str("name"), COLON, tok, RB>>

\* b'', {}, {"name":"Ada"}, {"other":"x"}, {"name":"Ada","name":"Bob"}, {"name":5},
\* {"name":null}, [], "Ada", and the truncated {"name"
Bodies ==
    { EmptyBody, <<LB, RB>>, NameBody(Str("Ada")), <<LB, Str("other"), COLON, Str("x"), RB>>,
      <<LB, Str("name"), COLON, Str("Ada"), COMMA, Str("name"), COLON, Str("Bob"), RB>>,
      NameBody(Num("5")), NameBody(NULL), <<LK, RK>>, <<Str("Ada")>>, <<LB, Str("name")>> }

Req(method, path, qs, body) ==
    [method |-> method, path |-> path, query |-> qs, body |-> body]

\* Every method on every path, bare; the three JSON GET routes with a query string
\* and with a body; POST /api/hello with every body, and with a query string.
Requests ==
    {Req(m, p, "", EmptyBody) : m \in Methods, p \in Paths}
    \cup {Req("GET", p, "?name=Eve", EmptyBody) : p \in {HelloPath, DuckdbPath, PolarsPath}}
    \cup {Req("GET", p, "", NameBody(Str("Ada"))) : p \in {HelloPath, DuckdbPath, PolarsPath}}
    \cup {Req("POST", HelloPath, "", b) : b \in Bodies}
    \cup {Req("POST", HelloPath, "?name=Eve", <<LB, RB>>)}

\* What a worker can find at a path of the static directory.
FileStates == {"absent", "empty", "data"}

\* The endpoints that read a file, and the endpoints that run on a worker thread.
FileEndpoints == {"index", "vite_svg", "StaticFiles"}
WorkerEndpoints == FileEndpoints \cup {"duckdb_example", "polars_example"}

-----------------------------------------------------------------------------
(* The state machine *)

Init ==
    /\ phase = "created"
    /\ db = Unset
    /\ reqs = EmptyBag

\* lifespan: app.state.db = None, then the application serves.
Startup ==
    /\ phase = "created"
    /\ phase' = "serving"
    /\ db' = lifespan_db
    /\ UNCHANGED reqs

\* A request as the router leaves it: answered, or suspended at its first await.
Begin(request) ==
    LET h == Dispatch(request.method, request.path)
    IN  [method |-> request.method, path |-> request.path, query |-> request.query,
         body |-> request.body, handler |-> h, file |-> "n/a", branch |-> "n/a",
         pc |-> IF h = "hello_post" THEN "await_json"
                ELSE IF h \in WorkerEndpoints THEN "threadpool" ELSE "done",
         resp |-> CASE h = "hello" -> hello(request)
                    [] h = "hello_htmx" -> hello_htmx(request)
                    [] h = "main_content" -> main_content(request)
                    [] h = "not_found" -> NotFound
                    [] h = "method_not_allowed" -> MethodNotAllowed
                    [] OTHER -> NoResponse]

\* The bag with one copy of request r replaced by its next position.
Replace(bag, r, next) == (bag (-) SetToBag({r})) (+) SetToBag({next})

\* A request arrives and runs up to its first suspension.
Receive(request) ==
    /\ phase = "serving"
    /\ BagCardinality(reqs) < MaxRequests
    /\ reqs' = reqs (+) SetToBag({Begin(request)})
    /\ UNCHANGED <<phase, db>>

\* Variant of BodyArrives: hello_post opens a connection and keeps it.
BodyArrives_sets_db(r) ==
    /\ BagIn(r, reqs)
    /\ r.pc = "await_json"
    /\ reqs' = Replace(reqs, r, [r EXCEPT !.pc = "done", !.resp = hello_post(r)])
    /\ db' = Conn
    /\ UNCHANGED phase

\* hello_post resumes: `await request.json()` returns or raises.
BodyArrives(r) ==
    /\ BagIn(r, reqs)
    /\ r.pc = "await_json"
    /\ reqs' = Replace(reqs, r, [r EXCEPT !.pc = "done", !.resp = hello_post(r)])
    /\ UNCHANGED <<phase, db>>

\* What the function handed to the thread pool produces, with app.state.db = d and
\* the file it opens in state file.
Work(r, d, file) ==
    CASE r.handler = "duckdb_example" ->
             [resp |-> duckdb_example(r, d), branch |-> query(r, d).branch]
      [] r.handler = "polars_example" -> [resp |-> polars_example(r), branch |-> "n/a"]
      [] r.handler = "index" ->
             [resp |-> file_route("index.html", "text/html", file), branch |-> "n/a"]
      [] r.handler = "vite_svg" ->
             [resp |-> file_route("vite.svg", "image/svg+xml", file), branch |-> "n/a"]
      [] r.handler = "StaticFiles" ->
             [resp |-> static_files(r.path[Len(r.path)], file), branch |-> "n/a"]

\* Variant of WorkerRuns: the worker opens a connection and keeps it.
WorkerRuns_sets_db(r, file) ==
    /\ BagIn(r, reqs)
    /\ r.pc = "threadpool"
    /\ file \in (IF r.handler \in FileEndpoints THEN FileStates ELSE {"n/a"})
    /\ LET out == Work(r, db, file)
       IN  reqs' = Replace(reqs, r, [r EXCEPT !.pc = "done", !.resp = out.resp,
                                              !.branch = out.branch, !.file = file])
    /\ db' = Conn
    /\ UNCHANGED phase

\* A worker thread runs the function of a suspended request and the request answers.
WorkerRuns(r, file) ==
    /\ BagIn(r, reqs)
    /\ r.pc = "threadpool"
    /\ file \in (IF r.handler \in FileEndpoints THEN FileStates ELSE {"n/a"})
    /\ LET out == Work(r, db, file)
       IN  reqs' = Replace(reqs, r, [r EXCEPT !.pc = "done", !.resp = out.resp,
                                              !.branch = out.branch, !.file = file])
    /\ UNCHANGED <<phase, db>>

Next ==
    \/ Startup
    \/ \E request \in Requests : Receive(request)
    \/ \E r \in BagToSet(reqs) : BodyArrives(r)
    \/ \E r \in BagToSet(reqs) : \E file \in FileStates \cup {"n/a"} : WorkerRuns(r, file)

Spec == Init /\ [][Next]_vars

TypeOK ==
    /\ phase \in {"created", "serving"}
    /\ db.kind \in {"unset", "None", "conn"}
    /\ BagCardinality(reqs) <= MaxRequests
    /\ \A r \in BagToSet(reqs) : r.pc \in {"await_json", "threadpool", "done"}

-----------------------------------------------------------------------------
(* Properties *)

Received == BagToSet(reqs)
Done(r) == r.pc = "done"
IsGet(r, path) == r.method = "GET" /\ r.path = path
IsPostHello(r) == r.method = "POST" /\ r.path = HelloPath

\* The greeting record for a name.
Greeting(n) == Response(200, "application/json", "object", <<[message |-> "Hello, " \o n \o "!"]>>, "")

\* The bodies that are JSON objects whose name field is a string or is absent,
\* each with the name the greeting must carry.
ObjectBodies ==
    { <<<<LB, RB>>, "World">>,
      <<<<LB, Str("other"), COLON, Str("x"), RB>>, "World">>,
      <<<<LB, Str("name"), COLON, Str("Ada"), RB>>, "Ada">>,
      <<<<LB, Str("name"), COLON, Str("Ada"), COMMA, Str("name"), COLON, Str("Bob"), RB>>, "Bob">> }

\* C1: a POST to /api/hello whose body is a JSON object is served by hello_post
\* (not by the GET route registered before it) and answers {"message": "Hello, <n>!"},
\* <n> being the body's name when present and "World" when absent.
C1_PostHelloGreets ==
    \A r \in Received : \A b \in ObjectBodies :
        (IsPostHello(r) /\ r.body = b[1]) =>
            /\ r.handler = "hello_post"
            /\ Done(r) => r.resp = Greeting(b[2])

C1_Witness ==
    \E r, s \in Received :
        /\ IsPostHello(r) /\ r.body = <<LB, RB>> /\ r.resp = Greeting("World")
        /\ IsPostHello(s) /\ s.body = NameBody(Str("Ada")) /\ s.resp = Greeting("Ada")

\* C2: after startup GET /api/duckdb-example answers exactly the three records
\* (Alice,25,NYC), (Bob,30,LA), (Charlie,35,Chicago), in that order, each with
\* exactly the keys name, age, city.
C2_DuckdbRows ==
    \A r \in Received :
        (IsGet(r, DuckdbPath) /\ Done(r)) =>
            /\ r.resp.status = 200
            /\ r.resp.shape = "array"
            /\ r.resp.items = << [name |-> "Alice", age |-> 25, city |-> "NYC"],
                                 [name |-> "Bob", age |-> 30, city |-> "LA"],
                                 [name |-> "Charlie", age |-> 35, city |-> "Chicago"] >>
            /\ \A k \in 1..3 : DOMAIN r.resp.items[k] = {"name", "age", "city"}

C2_Witness ==
    \E r \in Received : IsGet(r, DuckdbPath) /\ Done(r) /\ Len(r.resp.items) = 3

\* C3: GET /api/polars-example answers exactly five records, products A..E in
\* order, each with only the keys product and total, the totals being
\* 1050.0, 1250.0, 1181.25, 750.0, 1215.0 (here in hundredths).
C3_PolarsTotals ==
    \A r \in Received :
        (IsGet(r, PolarsPath) /\ Done(r)) =>
            /\ r.resp.status = 200
            /\ r.resp.shape = "array"
            /\ r.resp.items = << [product |-> "A", total |-> 105000],
                                 [product |-> "B", total |-> 125000],
                                 [product |-> "C", total |-> 118125],
                                 [product |-> "D", total |-> 75000],
                                 [product |-> "E", total |-> 121500] >>
            /\ \A k \in 1..5 : DOMAIN r.resp.items[k] = {"product", "total"}

C3_Witness ==
    \E r \in Received : IsGet(r, PolarsPath) /\ Done(r) /\ Len(r.resp.items) = 5

\* C4: GET /api/hello answers exactly {"message": "Hello from Starlette API!"}
\* with status 200, whatever the request carries and whatever was handled before.
C4_HelloFixed ==
    \A r \in Received :
        IsGet(r, HelloPath) =>
            /\ Done(r)
            /\ r.resp = Response(200, "application/json", "object",
                                 <<[message |-> "Hello from Starlette API!"]>>, "")

C4_Witness ==
    \E r, s, t \in Received :
        /\ IsPostHello(r) /\ Done(r) /\ r.resp.status = 500
        /\ IsGet(s, HelloPath) /\ s.query # "" /\ s.resp.status = 200
        /\ IsGet(t, HelloPath) /\ t.body # EmptyBody /\ t.resp.status = 200

\* The three GET JSON routes.
JsonGetPaths == {HelloPath, DuckdbPath, PolarsPath}

\* C5: two calls of the same GET JSON handler (hello, duckdb_example,
\* polars_example) answer identical bodies whatever was handled in between, and
\* the step that answers such a call leaves app.state.db unchanged.
C5_GetIdempotent ==
    /\ [](\A r, s \in Received :
            (/\ r.method = "GET" /\ s.method = "GET"
             /\ r.path = s.path /\ r.path \in JsonGetPaths
             /\ Done(r) /\ Done(s)) => r.resp = s.resp)
    /\ [][(\E r \in BagToSet(reqs') :
              /\ r.method = "GET" /\ r.path \in JsonGetPaths /\ Done(r)
              /\ CopiesIn(r, reqs') > CopiesIn(r, reqs)) => db' = db]_vars

\* Two calls of duckdb_example with a POST to /api/hello answered as well.
C5_Witness ==
    \E r, s \in Received :
        /\ IsGet(r, DuckdbPath) /\ Done(r) /\ CopiesIn(r, reqs) = 2
        /\ IsPostHello(s) /\ Done(s)

\* The GET requests for a static file.
IsStaticGet(r) == r.method = "GET" /\ r.path \in {<<>>, <<"vite.svg">>, AssetPath}

\* C6 as stated: every static file route (GET /, GET /vite.svg, GET /assets/*)
\* answers 404 when the file is absent.
C6_Original ==
    \A r \in Received :
        (IsStaticGet(r) /\ Done(r) /\ r.file = "absent") => r.resp.status = 404

\* C6 amended: when the file is absent GET /assets/* answers 404 and GET / and
\* GET /vite.svg answer the framework's 500 error response; none of them
\* answers successfully, so none answers a silent empty body.
C6_MissingFileIsAnError ==
    \A r \in Received :
        (IsStaticGet(r) /\ Done(r) /\ r.file = "absent") =>
            /\ r.path = AssetPath => r.resp = NotFound
            /\ r.path # AssetPath => r.resp = ServerError
            /\ r.resp.status \in {404, 500}

C6_Witness ==
    \E r, s, t \in Received :
        /\ IsGet(r, <<>>) /\ r.file = "absent" /\ r.resp.status = 500
        /\ IsGet(s, <<"vite.svg">>) /\ s.file = "absent" /\ s.resp.status = 500
        /\ IsGet(t, AssetPath) /\ t.file = "absent" /\ t.resp.status = 404

\* The bodies that are not valid JSON: b'' and the truncated {"name"
InvalidBodies == { EmptyBody, <<LB, Str("name")>> }

IsMalformedPost(r) == IsPostHello(r) /\ r.body \in InvalidBodies

\* C7: a POST to /api/hello whose body is not valid JSON answers the framework's
\* error response, never a greeting; the request is answered by the one step
\* that parses its body (no retry), and that step leaves app.state.db as it was.
C7_MalformedBodyFails ==
    /\ [](\A r \in Received : (IsMalformedPost(r) /\ Done(r)) => r.resp = ServerError)
    /\ [][\A r \in Received :
            (IsMalformedPost(r) /\ CopiesIn(r, reqs') < CopiesIn(r, reqs)) =>
                /\ r.pc = "await_json"
                /\ reqs' = Replace(reqs, r, [r EXCEPT !.pc = "done", !.resp = ServerError])
                /\ db' = db]_vars

C7_Witness ==
    \E r \in Received :
        IsPostHello(r) /\ r.body = <<LB, Str("name")>> /\ Done(r) /\ r.resp.status = 500

\* C8: the lifespan startup sets app.state.db to None and it is None in every
\* state afterwards; so duckdb_example never takes its SQL branch and takes the
\* fixed-table branch on every call.
C8_DbAlwaysNone ==
    /\ phase = "serving" => db = None
    /\ \A r \in Received :
           (r.handler = "duckdb_example" /\ Done(r)) => r.branch = "table"

C8_Witness ==
    /\ phase = "serving" /\ db = None
    /\ \E r \in Received :
           r.handler = "duckdb_example" /\ Done(r) /\ r.branch = "table" /\ CopiesIn(r, reqs) = 3

\* The response of request r handled alone: dispatched and resumed with no other
\* request in between, in the state the lifespan startup leaves (r.file being
\* what its worker found on disk).
Alone(r) ==
    LET b == Begin(Req(r.method, r.path, r.query, r.body))
    IN  IF b.pc = "done" THEN b.resp
        ELSE IF b.pc = "await_json" THEN hello_post(b)
        ELSE Work(b, lifespan_db, r.file).resp

\* C9: whatever requests are in flight together and however their steps
\* interleave, every request is answered as it would be when handled alone.
C9_AnsweredAsAlone ==
    \A r \in Received : Done(r) => r.resp = Alone(r)

\* Two requests are suspended, at the awaited body and in the thread pool, and a
\* third has been answered by a worker.
C9_Witness ==
    \E r, s, t \in Received :
        /\ r.handler = "duckdb_example" /\ r.pc = "threadpool"
        /\ s.handler = "hello_post" /\ s.pc = "await_json"
        /\ t.handler = "duckdb_example" /\ Done(t) /\ t.resp.status = 200

\* C10: two requests to the same tabular route that differ in query string or
\* body are answered alike.
C10_TabularIgnoresInput ==
    \A r, s \in Received :
        (/\ r.method = "GET" /\ s.method = "GET"
         /\ r.path = s.path /\ r.path \in {DuckdbPath, PolarsPath}
         /\ (r.query # s.query \/ r.body # s.body)
         /\ Done(r) /\ Done(s)) => r.resp = s.resp

C10_Witness ==
    \E r, s, t \in Received :
        /\ IsGet(r, DuckdbPath) /\ IsGet(s, DuckdbPath) /\ IsGet(t, DuckdbPath)
        /\ r.query # s.query /\ r.body # t.body
        /\ Done(r) /\ Done(s) /\ Done(t) /\ r.resp.status = 200

====
